---- MODULE Spec2Model ----
(***************************************************************************)
(* gen-systemd-svcs: a definition document (template + instances per       *)
(* group) is decoded, every instance is resolved against the template of   *)
(* its group into the text of a unit file, and the text is written to      *)
(* OUTPUT_DIRECTORY/{name}.service.  Source: src/src/main.rs.              *)
(*                                                                         *)
(* Text is modelled as a sequence of lines, a line as a sequence of        *)
(* tokens: "Key=value\n" is <<"Key", "=", "value">>, a literal line is     *)
(* <<"text">>, the empty line is <<"">>.  Option<T> is a sequence of       *)
(* length at most one.                                                     *)
(***************************************************************************)
EXTENDS Integers, Sequences, FiniteSets, TLC

VARIABLES
    doc,        \* the definition document main reads (raw, before decoding)
    def_file,   \* main: let def_file: DefinitionFile
    pc,         \* main's position
    gi,         \* main: index of `def` in the outer for loop
    ii,         \* main: index of `instance` in the inner for loop
    fs,         \* the files that exist, path -> content
    writes,     \* the fs::write calls made so far, in order
    instance,   \* resolve: its first argument
    template,   \* resolve: its second argument
    memo,       \* resolve: let mut memo
    rpc         \* resolve's position

vars == <<doc, def_file, pc, gi, ii, fs, writes, instance, template, memo, rpc>>
mainVars == <<doc, def_file, pc, gi, ii, fs, writes>>
resolveVars == <<instance, template, memo, rpc>>

----------------------------------------------------------------------------
(* Bounds of the model *)

\* longest unit list (requires / after / wants) drawn for resolve
MaxLen == 2
\* most instances in one definition document
MaxInstances == 3

----------------------------------------------------------------------------
(* Option<T> *)

None == <<>>
Some(v) == <<v>>
is_some(o) == Len(o) = 1
unwrap_or(o, d) == IF is_some(o) THEN o[1] ELSE d
unwrap_or_default(o) == unwrap_or(o, <<>>)

(* Lines of text *)

Lit(s) == <<s>>
KV(k, toks) == <<k, "=">> \o toks
IsKey(line, k) == Len(line) >= 2 /\ line[1] = k /\ line[2] = "="

RECURSIVE SelectLines(_, _)
\* the lines "k=..." of text, in order
SelectLines(text, k) ==
    IF text = <<>> THEN <<>>
    ELSE IF IsKey(Head(text), k)
         THEN <<Head(text)>> \o SelectLines(Tail(text), k)
         ELSE SelectLines(Tail(text), k)

\* the value tokens of a line "k=..."
ValueOf(line) == SubSeq(line, 3, Len(line))

IsPrefix(s, t) == Len(s) <= Len(t) /\ SubSeq(t, 1, Len(s)) = s

----------------------------------------------------------------------------
(* Display of the enumerations and of u32 *)

RestartDisplay(r) ==
    CASE r = "No" -> "no"
      [] r = "Always" -> "always"
      [] r = "OnSuccess" -> "on-success"
      [] r = "OnFailure" -> "on-failure"
      [] r = "OnWatchdog" -> "on-watchdog"
      [] r = "OnAbort" -> "on-abort"

RemainAfterExitDisplay(r) ==
    CASE r = "No" -> "no"
      [] r = "Yes" -> "yes"

\* Display serializes the variant: serde(rename_all = "lowercase")
ServiceTypeDisplay(t) ==
    CASE t = "Simple" -> "simple"
      [] t = "OneShot" -> "oneshot"
      [] t = "Forking" -> "forking"
      [] t = "Notify" -> "notify"
      [] t = "DBus" -> "dbus"
      [] t = "Idle" -> "idle"

Digit(d) ==
    CASE d = 0 -> "0" [] d = 1 -> "1" [] d = 2 -> "2" [] d = 3 -> "3"
      [] d = 4 -> "4" [] d = 5 -> "5" [] d = 6 -> "6" [] d = 7 -> "7"
      [] d = 8 -> "8" [] d = 9 -> "9"

RECURSIVE FmtU32(_)
\* format!("{}", v) of a u32: its decimal digits
FmtU32(n) == IF n < 10 THEN <<Digit(n)>> ELSE FmtU32(n \div 10) \o <<Digit(n % 10)>>

RECURSIVE Join(_, _)
\* v.join(sep)
Join(v, sep) ==
    IF v = <<>> THEN <<>>
    ELSE IF Len(v) = 1 THEN <<v[1]>>
    ELSE <<v[1], sep>> \o Join(Tail(v), sep)

----------------------------------------------------------------------------
(* resolve_service_section *)

\* if i.x.is_some() { x = i.x }
Override(i, t) == IF is_some(i) THEN i ELSE t

\* a bug: the instance's block replaces the template's block wholesale
ResolvedServiceWholesale(instance_service, template_service) ==
    IF is_some(instance_service) THEN instance_service[1] ELSE template_service

\* lines 207-253: the eleven locals after the instance's overrides
ResolvedService(instance_service, template_service) ==
    IF is_some(instance_service)
    THEN LET i == instance_service[1]
             t == template_service
         IN [environment_file  |-> Override(i.environment_file, t.environment_file),
             exec_start_pre    |-> Override(i.exec_start_pre, t.exec_start_pre),
             exec_start        |-> Override(i.exec_start, t.exec_start),
             exec_stop         |-> Override(i.exec_stop, t.exec_stop),
             group             |-> Override(i.group, t.group),
             remain_after_exit |-> Override(i.remain_after_exit, t.remain_after_exit),
             restart           |-> Override(i.restart, t.restart),
             service_type      |-> Override(i.service_type, t.service_type),
             timeout_start_sec |-> Override(i.timeout_start_sec, t.timeout_start_sec),
             user              |-> Override(i.user, t.user),
             working_directory |-> Override(i.working_directory, t.working_directory)]
    ELSE template_service

\* if let Some(v) = x { memo += &format!("Key={}\n", v) }
EmitStr(k, o) == IF is_some(o) THEN <<KV(k, <<o[1]>>)>> ELSE <<>>

\* a bug: Type emitted before TimeoutStartSec (the order of the overrides)
EmitServiceSwapped(s) ==
    <<Lit(""), Lit("[Service]")>>
    \o EmitStr("EnvironmentFile", s.environment_file)
    \o EmitStr("ExecStartPre", s.exec_start_pre)
    \o EmitStr("ExecStart", s.exec_start)
    \o EmitStr("ExecStop", s.exec_stop)
    \o EmitStr("Group", s.group)
    \o (IF is_some(s.remain_after_exit)
        THEN <<KV("RemainAfterExit", <<RemainAfterExitDisplay(s.remain_after_exit[1])>>)>>
        ELSE <<>>)
    \o (IF is_some(s.restart)
        THEN <<KV("Restart", <<RestartDisplay(s.restart[1])>>)>>
        ELSE <<>>)
    \o (IF is_some(s.service_type)
        THEN <<KV("Type", <<ServiceTypeDisplay(s.service_type[1])>>)>>
        ELSE <<>>)
    \o (IF is_some(s.timeout_start_sec)
        THEN <<KV("TimeoutStartSec", FmtU32(s.timeout_start_sec[1]))>>
        ELSE <<>>)
    \o EmitStr("User", s.user)
    \o EmitStr("WorkingDirectory", s.working_directory)

\* lines 255-289: what is appended to memo for the resolved values s
EmitService(s) ==
    <<Lit(""), Lit("[Service]")>>
    \o EmitStr("EnvironmentFile", s.environment_file)
    \o EmitStr("ExecStartPre", s.exec_start_pre)
    \o EmitStr("ExecStart", s.exec_start)
    \o EmitStr("ExecStop", s.exec_stop)
    \o EmitStr("Group", s.group)
    \o (IF is_some(s.remain_after_exit)
        THEN <<KV("RemainAfterExit", <<RemainAfterExitDisplay(s.remain_after_exit[1])>>)>>
        ELSE <<>>)
    \o (IF is_some(s.restart)
        THEN <<KV("Restart", <<RestartDisplay(s.restart[1])>>)>>
        ELSE <<>>)
    \o (IF is_some(s.timeout_start_sec)
        THEN <<KV("TimeoutStartSec", FmtU32(s.timeout_start_sec[1]))>>
        ELSE <<>>)
    \o (IF is_some(s.service_type)
        THEN <<KV("Type", <<ServiceTypeDisplay(s.service_type[1])>>)>>
        ELSE <<>>)
    \o EmitStr("User", s.user)
    \o EmitStr("WorkingDirectory", s.working_directory)

resolve_service_section(instance_service, template_service, m) ==
    m \o EmitService(ResolvedService(instance_service, template_service))

----------------------------------------------------------------------------
(* resolve, step by step *)

\* lines 295-298
ResolveHeader(inst) ==
    <<Lit("; THIS FILE IS GENERATED BY gen-systemd-svc"),
      Lit("; DO NOT EDIT THIS FILE DIRECTLY!"),
      Lit(""), Lit("[Unit]"),
      KV("Description", <<inst.unit.description>>)>>

\* a bug: the template's list is dropped when the instance gives its own
MergeListReplacing(inherit, template_list, instance_list) ==
    IF inherit /\ ~is_some(instance_list)
    THEN template_list
    ELSE unwrap_or_default(instance_list)

\* lines 300-307 (requires), 313-320 (after), 326-333 (wants)
MergeList(inherit, template_list, instance_list) ==
    IF inherit
    THEN template_list \o unwrap_or_default(instance_list)
    ELSE unwrap_or_default(instance_list)

\* for x in list { memo += &format!("Key={}\n", x) }
ListLines(k, list) == [j \in 1..Len(list) |-> KV(k, <<list[j]>>)]

ResolveRequires(inst, tmpl) ==
    ListLines("Requires",
              MergeList(inst.unit.inherit_requires, tmpl.unit.requires, inst.unit.requires))

ResolveAfter(inst, tmpl) ==
    ListLines("After",
              MergeList(inst.unit.inherit_after, tmpl.unit.after, inst.unit.after))

ResolveWants(inst, tmpl) ==
    ListLines("Wants",
              MergeList(inst.unit.inherit_wants, tmpl.unit.wants, inst.unit.wants))

\* lines 339-341
ResolveMounts(inst) ==
    IF is_some(inst.unit.requires_mounts_for)
    THEN <<KV("RequiresMountsFor", Join(inst.unit.requires_mounts_for[1], " "))>>
    ELSE <<>>

\* a bug: the template's WantedBy is kept beside the instance's
ResolveInstallMerged(inst, tmpl) ==
    <<Lit(""), Lit("[Install]")>>
    \o (IF is_some(inst.install) /\ inst.install[1].wanted_by # tmpl.install.wanted_by
        THEN <<KV("WantedBy", <<tmpl.install.wanted_by>>)>>
        ELSE <<>>)
    \o <<KV("WantedBy", <<unwrap_or(inst.install, tmpl.install).wanted_by>>)>>

\* lines 347-351
ResolveInstall(inst, tmpl) ==
    <<Lit(""), Lit("[Install]"),
      KV("WantedBy", <<unwrap_or(inst.install, tmpl.install).wanted_by>>)>>

\* lines 294-353
resolve(inst, tmpl) ==
    resolve_service_section(
        inst.service, tmpl.service,
        ResolveHeader(inst) \o ResolveRequires(inst, tmpl) \o ResolveAfter(inst, tmpl)
        \o ResolveWants(inst, tmpl) \o ResolveMounts(inst))
    \o ResolveInstall(inst, tmpl)

----------------------------------------------------------------------------
(* The decoded types, and the inputs drawn for resolve *)

\* the fields of struct Service, in the order of their declaration
AttrSeq ==
    <<"environment_file", "exec_start_pre", "exec_start", "exec_stop", "group",
      "remain_after_exit", "restart", "timeout_start_sec", "service_type", "user",
      "working_directory">>

Attrs == {AttrSeq[k] : k \in 1..Len(AttrSeq)}

\* struct Service with the attributes in `present` set to the values `vals`
ServiceWith(vals, present) ==
    [f \in Attrs |-> IF f \in present THEN Some(vals[f]) ELSE None]

\* struct TemplateServiceDef
MkTemplate(req, aft, wnt, svc, wb) ==
    [unit |-> [requires |-> req, after |-> aft, wants |-> wnt],
     service |-> svc,
     install |-> [wanted_by |-> wb]]

\* struct InstanceServiceDef
MkInstance(n, d, req, aft, wnt, ireq, iaft, iwnt, mounts, svc, inst) ==
    [unit |-> [name |-> n, description |-> d,
               requires |-> req, after |-> aft, wants |-> wnt,
               inherit_requires |-> ireq, inherit_after |-> iaft,
               inherit_wants |-> iwnt, requires_mounts_for |-> mounts],
     service |-> svc,
     install |-> inst]

SeqsUpTo(S, n) == UNION {[1..k -> S] : k \in 0..n}

Deps == {"a.service", "b.service"}

\* most service attributes that template and instance mention between them
MaxAttrs == 2

\* values a template gives, values an instance gives
TemplateVals ==
    [environment_file |-> "/etc/t.env", exec_start_pre |-> "/bin/t-pre",
     exec_start |-> "/bin/t", exec_stop |-> "/bin/t-stop", group |-> "tg",
     remain_after_exit |-> "Yes", restart |-> "Always", timeout_start_sec |-> 30,
     service_type |-> "OneShot", user |-> "tu", working_directory |-> "/t"]

InstanceVals ==
    [environment_file |-> "/etc/i.env", exec_start_pre |-> "/bin/i-pre",
     exec_start |-> "/bin/i", exec_stop |-> "/bin/i-stop", group |-> "ig",
     remain_after_exit |-> "No", restart |-> "OnFailure", timeout_start_sec |-> 5,
     service_type |-> "DBus", user |-> "iu", working_directory |-> "/i"]

\* (template list, instance list, inherit flag) of one unit list field
FullTriples ==
    {<<t, i, h>> : t \in SeqsUpTo(Deps, MaxLen),
                   i \in {None} \cup {Some(l) : l \in SeqsUpTo(Deps, MaxLen)},
                   h \in BOOLEAN}

SmallTriples ==
    {<<<<"a.service">>, Some(<<"b.service">>), TRUE>>, <<<<>>, None, FALSE>>}

\* one field takes every triple, the two others the same small one
UnitTriples ==
    UNION {{<<f, s, s>>, <<s, f, s>>, <<s, s, f>>} : f \in FullTriples, s \in SmallTriples}

MountsChoices == {None, Some(<<>>), Some(<<"/mnt/a", "/mnt/b">>)}

BaseTemplateService == ServiceWith(TemplateVals, {"exec_start", "remain_after_exit"})

\* the unit lists vary
UnitInputs ==
    {[instance |-> MkInstance(<<"foo">>, "Foo service", u[1][2], u[2][2], u[3][2],
                              u[1][3], u[2][3], u[3][3], m, None, None),
      template |-> MkTemplate(u[1][1], u[2][1], u[3][1], BaseTemplateService,
                              "default.target")] :
        u \in UnitTriples, m \in MountsChoices}

\* (attributes the template gives, attributes the instance gives)
AttrSets == {q \in SUBSET Attrs : Cardinality(q) <= MaxAttrs}

AttrPairs == UNION {(SUBSET u) \X (SUBSET u) : u \in AttrSets}

ServicePairs ==
    {<<ServiceWith(TemplateVals, p[1]), Some(ServiceWith(InstanceVals, p[2]))>> :
        p \in AttrPairs}
    \cup {<<ServiceWith(TemplateVals, p), None>> : p \in AttrSets}

\* the service blocks vary
ServiceInputs ==
    {[instance |-> MkInstance(<<"foo">>, "Foo service", None, Some(<<"b.service">>), None,
                              TRUE, TRUE, FALSE, None, sp[2], None),
      template |-> MkTemplate(<<"net.target">>, <<"a.service">>, <<"w.service">>,
                              sp[1], "default.target")] :
        sp \in ServicePairs}

InstallPairs ==
    {"default.target", "multi-user.target"}
    \X {None, Some([wanted_by |-> "default.target"]),
        Some([wanted_by |-> "graphical.target"])}

\* the install blocks vary
InstallInputs ==
    {[instance |-> MkInstance(<<"foo">>, "Foo service", None, None, None,
                              TRUE, TRUE, TRUE, m, s, ip[2]),
      template |-> MkTemplate(<<"net.target">>, <<>>, <<>>, BaseTemplateService, ip[1])] :
        ip \in InstallPairs, m \in MountsChoices,
        s \in {None, Some(ServiceWith(InstanceVals, {"user"}))}}

ResolveInputs == UnitInputs \cup ServiceInputs \cup InstallInputs

NoInstance ==
    MkInstance(<<>>, "", None, None, None, TRUE, TRUE, TRUE, None, None, None)
NoTemplate ==
    MkTemplate(<<>>, <<>>, <<>>, ServiceWith(TemplateVals, {}), "default.target")

----------------------------------------------------------------------------
(* The definition document before decoding.  A key of a mapping is absent, *)
(* present with the value null (~), or present with a value.               *)

Absent == <<"absent">>
Null == <<"null">>
Val(x) == <<"val", x>>
IsAbsent(f) == f[1] = "absent"
IsNull(f) == f[1] = "null"
IsVal(f) == f[1] = "val"

\* a document that is not YAML at all
Unparsable == [parsable |-> FALSE, defs |-> Absent]

\* Result<T, serde_yaml::Error>
Ok(v) == [ok |-> TRUE, val |-> v]
Err == [ok |-> FALSE, val |-> <<>>]

\* serde(rename_all = "kebab-case") enum Restart
RestartNames ==
    ("no" :> "No") @@ ("always" :> "Always") @@ ("on-success" :> "OnSuccess")
    @@ ("on-failure" :> "OnFailure") @@ ("on-watchdog" :> "OnWatchdog")
    @@ ("on-abort" :> "OnAbort")

\* serde(rename_all = "lowercase") enum RemainAfterExit
RemainAfterExitNames == ("no" :> "No") @@ ("yes" :> "Yes")

\* serde(rename_all = "lowercase") enum ServiceType
ServiceTypeNames ==
    ("simple" :> "Simple") @@ ("oneshot" :> "OneShot") @@ ("forking" :> "Forking")
    @@ ("notify" :> "Notify") @@ ("dbus" :> "DBus") @@ ("idle" :> "Idle")

\* a unit variant is decoded from its name; any other name is an error
ParseEnum(names, s) == IF s \in DOMAIN names THEN Ok(names[s]) ELSE Err

\* u32: a negative number is an error (the documents drawn hold no number
\* above u32::MAX)
ParseU32(n) == IF n >= 0 THEN Ok(n) ELSE Err

default_template_deps == <<>>
default_inherit_requires == TRUE
default_inherit_after == TRUE
default_inherit_wants == TRUE
default_remain_after_exit == Some("No")
default_service_type == None
default_wanted_by == "default.target"
default_install == [wanted_by |-> default_wanted_by]

\* a field of type T without serde(default): a missing key is an error (the
\* documents drawn give no null for such a key)
Required(f) == IF IsAbsent(f) THEN Err ELSE Ok(f[2])

\* a field with serde(default = d): d stands in for a missing key only
Defaulted(f, d) == IF IsAbsent(f) THEN Ok(d) ELSE Required(f)

\* a field of type Option<T>: a missing key and null are None
Optional(f) == IF IsVal(f) THEN Ok(Some(f[2])) ELSE Ok(None)

\* Option<enum>
OptionalEnum(f, names) ==
    IF IsVal(f)
    THEN LET r == ParseEnum(names, f[2]) IN IF r.ok THEN Ok(Some(r.val)) ELSE Err
    ELSE Ok(None)

\* Option<enum> with serde(default = d): d for a missing key, None for null
DefaultedOptionalEnum(f, names, d) ==
    IF IsAbsent(f) THEN Ok(d) ELSE OptionalEnum(f, names)

\* Option<u32>
OptionalU32(f) ==
    IF IsVal(f)
    THEN LET r == ParseU32(f[2]) IN IF r.ok THEN Ok(Some(r.val)) ELSE Err
    ELSE Ok(None)

AllOk(rs) == \A k \in DOMAIN rs : rs[k].ok
Vals(rs) == [k \in DOMAIN rs |-> rs[k].val]

\* struct Service
DecodeService(raw) ==
    LET rs == [environment_file  |-> Optional(raw.environment_file),
               exec_start_pre    |-> Optional(raw.exec_start_pre),
               exec_start        |-> Optional(raw.exec_start),
               exec_stop         |-> Optional(raw.exec_stop),
               group             |-> Optional(raw.group),
               remain_after_exit |-> DefaultedOptionalEnum(raw.remain_after_exit,
                                                           RemainAfterExitNames,
                                                           default_remain_after_exit),
               restart           |-> OptionalEnum(raw.restart, RestartNames),
               timeout_start_sec |-> OptionalU32(raw.timeout_start_sec),
               service_type      |-> DefaultedOptionalEnum(raw.service_type,
                                                           ServiceTypeNames,
                                                           default_service_type),
               user              |-> Optional(raw.user),
               working_directory |-> Optional(raw.working_directory)]
    IN IF AllOk(rs) THEN Ok(Vals(rs)) ELSE Err

\* struct Install
DecodeInstall(raw) ==
    LET rs == [wanted_by |-> Defaulted(raw.wanted_by, default_wanted_by)]
    IN IF AllOk(rs) THEN Ok(Vals(rs)) ELSE Err

\* struct TemplateUnit
DecodeTemplateUnit(raw) ==
    LET rs == [requires |-> Defaulted(raw.requires, default_template_deps),
               after    |-> Defaulted(raw.after, default_template_deps),
               wants    |-> Defaulted(raw.wants, default_template_deps)]
    IN IF AllOk(rs) THEN Ok(Vals(rs)) ELSE Err

\* a bug: a missing description is taken as the empty string
DecodeInstanceUnitLenient(raw) ==
    LET rs == [name                |-> Required(raw.name),
               description         |-> Defaulted(raw.description, ""),
               requires            |-> Optional(raw.requires),
               after               |-> Optional(raw.after),
               wants               |-> Optional(raw.wants),
               inherit_requires    |-> Defaulted(raw.inherit_requires,
                                                 default_inherit_requires),
               inherit_after       |-> Defaulted(raw.inherit_after, default_inherit_after),
               inherit_wants       |-> Defaulted(raw.inherit_wants, default_inherit_wants),
               requires_mounts_for |-> Optional(raw.requires_mounts_for)]
    IN IF AllOk(rs) THEN Ok(Vals(rs)) ELSE Err

\* struct InstanceUnit
DecodeInstanceUnit(raw) ==
    LET rs == [name                |-> Required(raw.name),
               description         |-> Required(raw.description),
               requires            |-> Optional(raw.requires),
               after               |-> Optional(raw.after),
               wants               |-> Optional(raw.wants),
               inherit_requires    |-> Defaulted(raw.inherit_requires,
                                                 default_inherit_requires),
               inherit_after       |-> Defaulted(raw.inherit_after, default_inherit_after),
               inherit_wants       |-> Defaulted(raw.inherit_wants, default_inherit_wants),
               requires_mounts_for |-> Optional(raw.requires_mounts_for)]
    IN IF AllOk(rs) THEN Ok(Vals(rs)) ELSE Err

\* a nested struct behind a required key
RequiredStruct(f, r) == IF IsVal(f) THEN r ELSE Err

\* a nested struct behind an Option
OptionalStruct(f, r) == IF IsVal(f) THEN (IF r.ok THEN Ok(Some(r.val)) ELSE Err) ELSE Ok(None)

\* struct TemplateServiceDef
DecodeTemplate(raw) ==
    LET rs == [unit    |-> RequiredStruct(raw.unit, DecodeTemplateUnit(raw.unit[2])),
               service |-> RequiredStruct(raw.service, DecodeService(raw.service[2])),
               install |-> IF IsAbsent(raw.install)
                           THEN Ok(default_install)
                           ELSE RequiredStruct(raw.install, DecodeInstall(raw.install[2]))]
    IN IF AllOk(rs) THEN Ok(Vals(rs)) ELSE Err

\* struct InstanceServiceDef
DecodeInstance(raw) ==
    LET rs == [unit    |-> RequiredStruct(raw.unit, DecodeInstanceUnit(raw.unit[2])),
               service |-> OptionalStruct(raw.service, DecodeService(raw.service[2])),
               install |-> OptionalStruct(raw.install, DecodeInstall(raw.install[2]))]
    IN IF AllOk(rs) THEN Ok(Vals(rs)) ELSE Err

\* Vec<InstanceServiceDef>
DecodeInstances(raws) ==
    LET rs == [k \in 1..Len(raws) |-> DecodeInstance(raws[k])]
    IN IF AllOk(rs) THEN Ok(Vals(rs)) ELSE Err

\* struct TemplatesAndInstances
DecodeGroup(raw) ==
    LET rs == [template  |-> RequiredStruct(raw.template, DecodeTemplate(raw.template[2])),
               instances |-> RequiredStruct(raw.instances,
                                            DecodeInstances(raw.instances[2]))]
    IN IF AllOk(rs) THEN Ok(Vals(rs)) ELSE Err

\* serde_yaml::from_reader::<DefinitionFile>
DecodeDefinitionFile(d) ==
    IF ~d.parsable
    THEN Err
    ELSE LET gs == IF IsVal(d.defs)
                   THEN [k \in 1..Len(d.defs[2]) |-> DecodeGroup(d.defs[2][k])]
                   ELSE <<Err>>
         IN IF AllOk(gs) THEN Ok([defs |-> Vals(gs)]) ELSE Err

----------------------------------------------------------------------------
(* main *)

\* cli.out_dst
OutDst == <<"out">>

\* format!("{}.service", name); a name is a sequence of path tokens
FileName(name) == name \o <<".service">>

\* PathBuf::join: an absolute argument replaces the base
PathJoin(base, p) == IF p # <<>> /\ p[1] = "/" THEN p ELSE base \o <<"/">> \o p

\* a bug: every group is resolved against the first group's template
TemplateOfFirst(df, g) == df.defs[1].template

\* def.template.clone()
TemplateOf(df, g) == df.defs[g].template

EmptyFs == [p \in {} |-> <<>>]

\* a file that holds all of text, or (a failed write) some proper part of it
Whole(text) == [text |-> text, complete |-> TRUE]
Part(text) == [text |-> text, complete |-> FALSE]

\* the file at path p holds content c
Put(files, p, c) == [q \in DOMAIN files \cup {p} |-> IF q = p THEN c ELSE files[q]]

InLoop == pc = "loop" /\ gi <= Len(def_file.defs)
AtInstance == InLoop /\ ii <= Len(def_file.defs[gi].instances)
CurInstance == def_file.defs[gi].instances[ii]
CurDst == PathJoin(OutDst, FileName(CurInstance.unit.name))
CurResolved == resolve(CurInstance, TemplateOf(def_file, gi))

\* line 357: File::open(..).unwrap() panics
OpenFails ==
    /\ pc = "start"
    /\ pc' = "open_panicked"
    /\ UNCHANGED <<doc, def_file, gi, ii, fs, writes, resolveVars>>

\* lines 357-359: the document is read and decoded; unwrap() panics on an error
ReadDefinitions ==
    /\ pc = "start"
    /\ LET r == DecodeDefinitionFile(doc)
       IN IF r.ok
          THEN /\ def_file' = r.val
               /\ pc' = "loop"
          ELSE /\ pc' = "decode_panicked"
               /\ UNCHANGED def_file
    /\ gi' = 1
    /\ ii' = 1
    /\ UNCHANGED <<doc, fs, writes, resolveVars>>

\* lines 362-369, fs::write returns Ok: the file holds the resolved text
WriteInstance ==
    /\ AtInstance
    /\ fs' = Put(fs, CurDst, Whole(CurResolved))
    /\ writes' = Append(writes, [path |-> CurDst, content |-> CurResolved, ok |-> TRUE])
    /\ ii' = ii + 1
    /\ UNCHANGED <<doc, def_file, pc, gi, resolveVars>>

\* a bug: a failed write is reported and the loop goes on
WriteInstanceFailsAndContinues ==
    /\ AtInstance
    /\ fs' = fs
    /\ writes' = Append(writes, [path |-> CurDst, content |-> CurResolved, ok |-> FALSE])
    /\ ii' = ii + 1
    /\ UNCHANGED <<doc, def_file, pc, gi, resolveVars>>

\* lines 362-369, fs::write returns Err and expect() panics.  fs::write creates
\* (truncates) the file and then writes the text: when the creation fails the
\* files are as before, when the writing fails the file holds a part of the text
WriteInstanceFails ==
    /\ AtInstance
    /\ \/ fs' = fs
       \/ fs' = Put(fs, CurDst, Part(CurResolved))
    /\ writes' = Append(writes, [path |-> CurDst, content |-> CurResolved, ok |-> FALSE])
    /\ pc' = "write_panicked"
    /\ UNCHANGED <<doc, def_file, gi, ii, resolveVars>>

\* line 362: the inner loop is over, the outer loop takes the next group
NextGroup ==
    /\ InLoop
    /\ ii > Len(def_file.defs[gi].instances)
    /\ gi' = gi + 1
    /\ ii' = 1
    /\ UNCHANGED <<doc, def_file, pc, fs, writes, resolveVars>>

\* line 361: the outer loop is over, main returns
Finish ==
    /\ pc = "loop"
    /\ gi > Len(def_file.defs)
    /\ pc' = "done"
    /\ UNCHANGED <<doc, def_file, gi, ii, fs, writes, resolveVars>>

Next ==
    \/ OpenFails
    \/ ReadDefinitions
    \/ WriteInstance
    \/ WriteInstanceFails
    \/ NextGroup
    \/ Finish

----------------------------------------------------------------------------
(* The definition documents drawn *)

RawServiceWith(fields) ==
    [f \in Attrs |-> IF f \in DOMAIN fields THEN fields[f] ELSE Absent]

RawInstall(wb) == [wanted_by |-> wb]

RawTemplate(req, aft, wnt, svc, inst) ==
    [unit |-> Val([requires |-> req, after |-> aft, wants |-> wnt]),
     service |-> Val(svc),
     install |-> inst]

RawInstance(n, d, aft, iaft, svc, inst) ==
    [unit |-> Val([name |-> n, description |-> d,
                   requires |-> Absent, after |-> aft, wants |-> Absent,
                   inherit_requires |-> Absent, inherit_after |-> iaft,
                   inherit_wants |-> Absent, requires_mounts_for |-> Absent]),
     service |-> svc,
     install |-> inst]

RawGroup(t, is) == [template |-> t, instances |-> Val(is)]

RawDoc(gs) == [parsable |-> TRUE, defs |-> Val(gs)]

\* instance names: two plain ones, the empty one, an absolute path
Names == {<<"a">>, <<"b">>, <<>>, <<"/", "a">>}

ValidInstances ==
    {RawInstance(Val(n), Val("Service"), Val(<<"other.service">>), Absent, Absent, Absent) :
        n \in Names}

RawT1 ==
    RawTemplate(Val(<<"net.target">>), Val(<<"base.service">>), Absent,
                RawServiceWith([exec_start |-> Val("/bin/one")]), Absent)

RawT2 ==
    RawTemplate(Absent, Absent, Val(<<"w.service">>),
                RawServiceWith([exec_start |-> Val("/bin/two"),
                                remain_after_exit |-> Val("yes")]),
                Val(RawInstall(Val("multi-user.target"))))

InstanceLists == SeqsUpTo(ValidInstances, MaxInstances)

\* well-formed documents of one or two groups, MaxInstances instances at most
ValidDocs ==
    {RawDoc(<<RawGroup(Val(RawT1), is)>>) : is \in InstanceLists}
    \cup {RawDoc(<<RawGroup(Val(RawT1), p[1]), RawGroup(Val(RawT2), p[2])>>) :
            p \in {q \in InstanceLists \X InstanceLists :
                      Len(q[1]) + Len(q[2]) <= MaxInstances}}

GoodA == RawInstance(Val(<<"a">>), Val("Service"), Absent, Absent, Absent, Absent)
GoodB == RawInstance(Val(<<"b">>), Val("Service"), Absent, Absent, Absent, Absent)

BadInstances ==
    {RawInstance(Absent, Val("Service"), Absent, Absent, Absent, Absent),
     RawInstance(Val(<<"b">>), Absent, Absent, Absent, Absent, Absent),
     RawInstance(Val(<<"b">>), Val("Service"), Absent, Absent,
                 Val(RawServiceWith([restart |-> Val("sometimes")])), Absent),
     RawInstance(Val(<<"b">>), Val("Service"), Absent, Absent,
                 Val(RawServiceWith([timeout_start_sec |-> Val(-1)])), Absent)}

\* documents that do not decode: the defect comes first, last, or in a later group
MalformedDocs ==
    {Unparsable, [parsable |-> TRUE, defs |-> Absent]}
    \cup {RawDoc(<<RawGroup(Val(RawT1), <<GoodA>>), RawGroup(Absent, <<GoodB>>)>>)}
    \cup {RawDoc(<<RawGroup(Val(RawT1), <<b>>)>>) : b \in BadInstances}
    \cup {RawDoc(<<RawGroup(Val(RawT1), <<GoodA, b>>)>>) : b \in BadInstances}
    \cup {RawDoc(<<RawGroup(Val(RawT1), <<GoodA>>), RawGroup(Val(RawT2), <<b>>)>>) :
            b \in BadInstances}

Docs == ValidDocs \cup MalformedDocs

\* the values a template's document gives, the values an instance's gives
RawTemplateVals ==
    [environment_file |-> "/etc/t.env", exec_start_pre |-> "/bin/t-pre",
     exec_start |-> "/bin/t", exec_stop |-> "/bin/t-stop", group |-> "tg",
     remain_after_exit |-> "yes", restart |-> "always", timeout_start_sec |-> 30,
     service_type |-> "oneshot", user |-> "tu", working_directory |-> "/t"]

RawInstanceVals ==
    [environment_file |-> "/etc/i.env", exec_start_pre |-> "/bin/i-pre",
     exec_start |-> "/bin/i", exec_stop |-> "/bin/i-stop", group |-> "ig",
     remain_after_exit |-> "no", restart |-> "on-failure", timeout_start_sec |-> 5,
     service_type |-> "dbus", user |-> "iu", working_directory |-> "/i"]

\* a key is missing, null, or given
RawOptions(vals, f) == {Absent, Null, Val(vals[f])}

\* service blocks that mention the attributes a and b at most
RawServices(vals, a, b) ==
    {[f \in Attrs |-> IF f = a THEN oa ELSE IF f = b THEN ob ELSE Absent] :
        oa \in RawOptions(vals, a), ob \in RawOptions(vals, b)}

FooInstance(aft, iaft, svc, inst) ==
    RawInstance(Val(<<"foo">>), Val("Foo service"), aft, iaft, svc, inst)

OneInstanceDoc(t, i) == RawDoc(<<RawGroup(Val(t), <<i>>)>>)

\* one template and one instance, the service blocks vary
ServiceDocs ==
    UNION {
        {OneInstanceDoc(
            RawTemplate(Val(<<"net.target">>), Val(<<"base.service">>), Absent, ts, Absent),
            FooInstance(Val(<<"other.service">>), Absent, is, Absent)) :
                ts \in RawServices(RawTemplateVals, ab[1], ab[2]),
                is \in {Absent, Null}
                       \cup {Val(x) : x \in RawServices(RawInstanceVals, ab[1], ab[2])}} :
        ab \in {<<AttrSeq[jk[1]], AttrSeq[jk[2]]>> : jk \in {q \in (1..Len(AttrSeq)) \X (1..Len(AttrSeq)) : q[1] <= q[2]}}}

RawTemplateInstalls ==
    {Absent, Val(RawInstall(Absent)), Val(RawInstall(Val("multi-user.target")))}

RawInstanceInstalls ==
    {Absent, Null, Val(RawInstall(Absent)), Val(RawInstall(Val("graphical.target"))),
     Val(RawInstall(Val("multi-user.target")))}

\* one template and one instance, the install blocks vary
InstallDocs ==
    {OneInstanceDoc(
        RawTemplate(Val(<<"net.target">>), Absent, Absent,
                    RawServiceWith([exec_start |-> Val("/bin/true"), user |-> Val("tu")]), ti),
        FooInstance(Absent, Absent, is, ii_)) :
            ti \in RawTemplateInstalls, ii_ \in RawInstanceInstalls,
            is \in {Absent, Val(RawServiceWith([user |-> Val("iu")]))}}

\* one template and one instance, the instance's After and InheritAfter vary
UnitDocs ==
    {OneInstanceDoc(
        RawTemplate(Val(<<"net.target">>), Val(<<"base.service">>), Absent,
                    RawServiceWith([exec_start |-> Val("/bin/true")]), Absent),
        FooInstance(aft, iaft, Absent, Absent)) :
            aft \in {Absent, Null, Val(<<>>), Val(<<"other.service">>)},
            iaft \in {Absent, Val(TRUE), Val(FALSE)}}

DecodeDocs == ServiceDocs \cup InstallDocs \cup UnitDocs \cup MalformedDocs

InitMain(documents) ==
    /\ doc \in documents
    /\ def_file = [defs |-> <<>>]
    /\ pc = "start"
    /\ gi = 1
    /\ ii = 1
    /\ fs = EmptyFs
    /\ writes = <<>>
    /\ instance = NoInstance
    /\ template = NoTemplate
    /\ memo = <<>>
    /\ rpc = "idle"

Init == InitMain(Docs)

Spec == Init /\ [][Next]_vars

\* the run over documents of one instance whose fields vary
InitDecode == InitMain(DecodeDocs)

SpecDecode == InitDecode /\ [][Next]_vars

----------------------------------------------------------------------------
(* resolve as a state machine: one step per block of the function *)

StepHeader ==
    /\ rpc = "header"
    /\ memo' = ResolveHeader(instance)
    /\ rpc' = "requires"
    /\ UNCHANGED <<instance, template, mainVars>>

StepRequires ==
    /\ rpc = "requires"
    /\ memo' = memo \o ResolveRequires(instance, template)
    /\ rpc' = "after"
    /\ UNCHANGED <<instance, template, mainVars>>

StepAfter ==
    /\ rpc = "after"
    /\ memo' = memo \o ResolveAfter(instance, template)
    /\ rpc' = "wants"
    /\ UNCHANGED <<instance, template, mainVars>>

StepWants ==
    /\ rpc = "wants"
    /\ memo' = memo \o ResolveWants(instance, template)
    /\ rpc' = "mounts"
    /\ UNCHANGED <<instance, template, mainVars>>

StepMounts ==
    /\ rpc = "mounts"
    /\ memo' = memo \o ResolveMounts(instance)
    /\ rpc' = "service"
    /\ UNCHANGED <<instance, template, mainVars>>

StepService ==
    /\ rpc = "service"
    /\ memo' = resolve_service_section(instance.service, template.service, memo)
    /\ rpc' = "install"
    /\ UNCHANGED <<instance, template, mainVars>>

StepInstall ==
    /\ rpc = "install"
    /\ memo' = memo \o ResolveInstall(instance, template)
    /\ rpc' = "done"
    /\ UNCHANGED <<instance, template, mainVars>>

InitResolve ==
    /\ \E in \in ResolveInputs : instance = in.instance /\ template = in.template
    /\ memo = <<>>
    /\ rpc = "header"
    /\ doc = Unparsable
    /\ def_file = [defs |-> <<>>]
    /\ pc = "idle"
    /\ gi = 1
    /\ ii = 1
    /\ fs = <<>>
    /\ writes = <<>>

NextResolve ==
    \/ StepHeader
    \/ StepRequires
    \/ StepAfter
    \/ StepWants
    \/ StepMounts
    \/ StepService
    \/ StepInstall

SpecResolve == InitResolve /\ [][NextResolve]_vars


----------------------------------------------------------------------------
(* Vocabulary of the properties *)

\* the instances of a decoded document in the order of their declaration
RECURSIVE FlatFrom(_, _)
FlatFrom(df, g) ==
    IF g > Len(df.defs)
    THEN <<>>
    ELSE [i \in 1..Len(df.defs[g].instances) |-> [g |-> g, i |-> i]] \o FlatFrom(df, g + 1)

Order == FlatFrom(def_file, 1)
InstanceAt(k) == def_file.defs[Order[k].g].instances[Order[k].i]
RawInstanceAt(k) == doc.defs[2][Order[k].g].instances[2][Order[k].i]
RawTemplateAt(k) == doc.defs[2][Order[k].g].template[2]
\* the text the k-th instance resolves to against the template of its own group
TextAt(k) == resolve(InstanceAt(k), def_file.defs[Order[k].g].template)
\* the file main names for the k-th instance
PathAt(k) == PathJoin(OutDst, FileName(InstanceAt(k).unit.name))

\* the values of the lines "k=..." of text, in order
ValuesOf(text, k) ==
    LET ls == SelectLines(text, k) IN [j \in 1..Len(ls) |-> ValueOf(ls[j])]

\* the key of each service attribute in the output
KeyOf ==
    [environment_file |-> "EnvironmentFile", exec_start_pre |-> "ExecStartPre",
     exec_start |-> "ExecStart", exec_stop |-> "ExecStop", group |-> "Group",
     remain_after_exit |-> "RemainAfterExit", restart |-> "Restart",
     timeout_start_sec |-> "TimeoutStartSec", service_type |-> "Type", user |-> "User",
     working_directory |-> "WorkingDirectory"]

\* the text of a value of service attribute f
Shown(f, v) ==
    CASE f = "remain_after_exit" -> <<RemainAfterExitDisplay(v)>>
      [] f = "restart" -> <<RestartDisplay(v)>>
      [] f = "service_type" -> <<ServiceTypeDisplay(v)>>
      [] f = "timeout_start_sec" -> FmtU32(v)
      [] OTHER -> <<v>>

\* the lines of key f's attribute in a text that holds the optional value o
LinesFor(f, o) == IF is_some(o) THEN <<KV(KeyOf[f], Shown(f, o[1]))>> ELSE <<>>

----------------------------------------------------------------------------
(* C1 *)

ListFields == {"requires", "after", "wants"}
ListKey == [requires |-> "Requires", after |-> "After", wants |-> "Wants"]
InheritFlag(inst, f) ==
    CASE f = "requires" -> inst.unit.inherit_requires
      [] f = "after" -> inst.unit.inherit_after
      [] f = "wants" -> inst.unit.inherit_wants

\* (template_list if the flag is true, else empty) followed by (the instance's
\* list, or empty if absent)
ExpectedList(inst, tmpl, f) ==
    (IF InheritFlag(inst, f) THEN tmpl.unit[f] ELSE <<>>)
    \o (IF is_some(inst.unit[f]) THEN inst.unit[f][1] ELSE <<>>)

\* C1: for requires, after and wants, the resolved text holds exactly one line
\* per entry of (the template's list if the inherit flag is true) followed by
\* (the instance's list if present), in that order and with duplicates kept;
\* with the instance's list absent and the flag true they are the template's.
C1_ListsMerged ==
    rpc = "done" =>
        \A f \in ListFields :
            /\ ValuesOf(memo, ListKey[f])
                 = [j \in 1..Len(ExpectedList(instance, template, f)) |->
                        <<ExpectedList(instance, template, f)[j]>>]
            /\ (InheritFlag(instance, f) /\ ~is_some(instance.unit[f]))
                 => ValuesOf(memo, ListKey[f])
                      = [j \in 1..Len(template.unit[f]) |-> <<template.unit[f][j]>>]

\* the template's two entries are followed by the instance's, one of them again
C1_Witness ==
    /\ rpc = "done"
    /\ instance.unit.inherit_requires
    /\ template.unit.requires = <<"a.service", "b.service">>
    /\ instance.unit.requires = Some(<<"a.service">>)
    /\ ValuesOf(memo, "Requires") = <<<<"a.service">>, <<"b.service">>, <<"a.service">>>>

----------------------------------------------------------------------------
(* C2 *)

\* the instance's value when the instance has a service block that gives the
\* attribute, otherwise the template's
ExpectedAttr(inst, tmpl, f) ==
    IF is_some(inst.service) /\ is_some(inst.service[1][f])
    THEN inst.service[1][f]
    ELSE tmpl.service[f]

\* C2: for each of the eleven service attributes, the value resolve_service_section
\* emits is the instance block's value when the block is there and gives the
\* attribute, and otherwise the template's value.
C2_ServicePerField ==
    rpc \in {"install", "done"} =>
        \A f \in Attrs :
            SelectLines(memo, KeyOf[f]) = LinesFor(f, ExpectedAttr(instance, template, f))

\* the template gives exec_start and user, the instance's block gives user only
C2_Witness ==
    /\ rpc = "done"
    /\ is_some(template.service.exec_start)
    /\ is_some(template.service.user)
    /\ is_some(instance.service)
    /\ \A f \in Attrs : is_some(instance.service[1][f]) <=> f = "user"
    /\ SelectLines(memo, "ExecStart") = <<KV("ExecStart", <<"/bin/t">>)>>
    /\ SelectLines(memo, "User") = <<KV("User", <<"iu">>)>>

----------------------------------------------------------------------------
(* C6 *)

\* the place of a line in the fixed order; 0 for the empty line
Rank(line) ==
    CASE line = Lit("") -> 0
      [] line = Lit("; THIS FILE IS GENERATED BY gen-systemd-svc") -> 1
      [] line = Lit("; DO NOT EDIT THIS FILE DIRECTLY!") -> 2
      [] line = Lit("[Unit]") -> 3
      [] IsKey(line, "Description") -> 4
      [] IsKey(line, "Requires") -> 5
      [] IsKey(line, "After") -> 6
      [] IsKey(line, "Wants") -> 7
      [] IsKey(line, "RequiresMountsFor") -> 8
      [] line = Lit("[Service]") -> 9
      [] IsKey(line, "EnvironmentFile") -> 10
      [] IsKey(line, "ExecStartPre") -> 11
      [] IsKey(line, "ExecStart") -> 12
      [] IsKey(line, "ExecStop") -> 13
      [] IsKey(line, "Group") -> 14
      [] IsKey(line, "RemainAfterExit") -> 15
      [] IsKey(line, "Restart") -> 16
      [] IsKey(line, "TimeoutStartSec") -> 17
      [] IsKey(line, "Type") -> 18
      [] IsKey(line, "User") -> 19
      [] IsKey(line, "WorkingDirectory") -> 20
      [] line = Lit("[Install]") -> 21
      [] IsKey(line, "WantedBy") -> 22
      [] OTHER -> -1

Repeatable(line) ==
    IsKey(line, "Requires") \/ IsKey(line, "After") \/ IsKey(line, "Wants")

IsSection(line) == line \in {Lit("[Unit]"), Lit("[Service]"), Lit("[Install]")}

NonBlank(text) == SelectSeq(text, LAMBDA l : l # Lit(""))

\* the lines of text are in the fixed order, each section header after an empty line
InFixedOrder(text) ==
    /\ \A j \in 1..Len(text) : Rank(text[j]) >= 0
    /\ LET nb == NonBlank(text)
       IN \A j \in 2..Len(nb) :
            \/ Rank(nb[j - 1]) < Rank(nb[j])
            \/ Rank(nb[j - 1]) = Rank(nb[j]) /\ Repeatable(nb[j])
    /\ \A j \in 1..Len(text) :
            /\ IsSection(text[j]) => j > 1 /\ text[j - 1] = Lit("")
            /\ text[j] = Lit("") => j < Len(text) /\ IsSection(text[j + 1])

\* the lines every output holds
HasFixedLines(text) ==
    /\ Len(text) >= 5
    /\ Rank(text[1]) = 1 /\ Rank(text[2]) = 2 /\ Rank(text[4]) = 3 /\ Rank(text[5]) = 4
    /\ \E j \in 1..Len(text) : text[j] = Lit("[Service]")
    /\ Rank(text[Len(text) - 1]) = 21
    /\ Rank(text[Len(text)]) = 22

C6_Ordered ==
    /\ rpc # "header" => InFixedOrder(memo)
    /\ rpc = "done" => HasFixedLines(memo)

\* C6: whatever fields are populated, the lines of the output are in the one
\* fixed order (header, [Unit] with Description, Requires*, After*, Wants*,
\* RequiresMountsFor, [Service] with its eleven keys, [Install] with WantedBy),
\* and every step of resolve only appends to the text built so far.
C6_FixedOrderAppendOnly ==
    /\ []C6_Ordered
    /\ [][IsPrefix(memo, memo')]_vars

\* an output with every kind of unit line and two service lines
C6_Witness ==
    /\ rpc = "done"
    /\ \A k \in {"Requires", "After", "Wants", "RequiresMountsFor", "ExecStart",
                 "RemainAfterExit", "WantedBy"} : SelectLines(memo, k) # <<>>
    /\ Len(SelectLines(memo, "Requires")) >= 2

----------------------------------------------------------------------------
(* C3, C4, C5: from the document to the text handed to fs::write *)

\* C3: when the instance's document gives a service block that does not mention
\* remain_after_exit, the RemainAfterExit line of the output carries the
\* template's value (the one its document gives, or the default "no").
C3_RemainAfterExitFromTemplate ==
    \A k \in 1..Len(writes) :
        (/\ IsVal(RawInstanceAt(k).service)
         /\ IsAbsent(RawInstanceAt(k).service[2].remain_after_exit)
         /\ is_some(def_file.defs[Order[k].g].template.service.remain_after_exit))
        => SelectLines(writes[k].content, "RemainAfterExit")
             = LinesFor("remain_after_exit",
                        def_file.defs[Order[k].g].template.service.remain_after_exit)

\* the wanted_by of a decoded install block of the document
WantedByOf(rawInstall) ==
    IF IsVal(rawInstall[2].wanted_by) THEN rawInstall[2].wanted_by[2] ELSE "default.target"

\* the instance's install block when it has one, otherwise the template's,
\* otherwise the default
ExpectedWantedBy(k) ==
    IF IsVal(RawInstanceAt(k).install)
    THEN WantedByOf(RawInstanceAt(k).install)
    ELSE IF IsVal(RawTemplateAt(k).install)
         THEN WantedByOf(RawTemplateAt(k).install)
         ELSE "default.target"

TemplateWantedBy(k) ==
    IF IsVal(RawTemplateAt(k).install)
    THEN WantedByOf(RawTemplateAt(k).install)
    ELSE "default.target"

Tokens(text) == UNION {{text[j][t] : t \in 1..Len(text[j])} : j \in 1..Len(text)}

\* C4: the output holds exactly one WantedBy line; its value is the wanted_by of
\* the instance's install block when the instance has one, otherwise that of the
\* template's ("default.target" when the template gives none); with an install
\* block on the instance no other value of the template's block is in the output.
C4_InstallWholesale ==
    \A k \in 1..Len(writes) :
        /\ SelectLines(writes[k].content, "WantedBy")
             = <<KV("WantedBy", <<ExpectedWantedBy(k)>>)>>
        /\ (IsVal(RawInstanceAt(k).install) /\ ExpectedWantedBy(k) # TemplateWantedBy(k))
             => TemplateWantedBy(k) \notin Tokens(writes[k].content)

\* the template says multi-user.target, the instance's block graphical.target
C4_Witness ==
    /\ Len(writes) = 1
    /\ writes[1].ok
    /\ IsVal(RawInstanceAt(1).install)
    /\ TemplateWantedBy(1) = "multi-user.target"
    /\ SelectLines(writes[1].content, "WantedBy") = <<KV("WantedBy", <<"graphical.target">>)>>

\* C5: a service attribute's line is in the output if and only if its resolved
\* value is present, and at most once; every output holds exactly one
\* RemainAfterExit line ("no" when neither template nor instance gives a value),
\* and no Type line when neither template nor instance gives service_type.
C5_LinePerResolvedValue ==
    \A k \in 1..Len(writes) :
        LET inst == InstanceAt(k)
            tmpl == def_file.defs[Order[k].g].template
            rawT == RawTemplateAt(k).service[2]
            rawI == RawInstanceAt(k).service
            gives(f) == IsVal(rawT[f]) \/ (IsVal(rawI) /\ IsVal(rawI[2][f]))
        IN /\ \A f \in Attrs :
                Len(SelectLines(writes[k].content, KeyOf[f]))
                  = IF is_some(ResolvedService(inst.service, tmpl.service)[f]) THEN 1 ELSE 0
           /\ Len(SelectLines(writes[k].content, "RemainAfterExit")) = 1
           /\ ~gives("remain_after_exit")
                => SelectLines(writes[k].content, "RemainAfterExit")
                     = <<KV("RemainAfterExit", <<"no">>)>>
           /\ ~gives("service_type") => SelectLines(writes[k].content, "Type") = <<>>

----------------------------------------------------------------------------
(* C7 - C10: the run *)

\* the last instance, in the order of declaration, that main writes to the
\* file of the k-th
LastAt(k) ==
    CHOOSE j \in k..Len(Order) :
        /\ PathAt(j) = PathAt(k)
        /\ \A m \in (j + 1)..Len(Order) : PathAt(m) # PathAt(k)

\* def_file is the decoded document, as it was decoded
Decoded == pc \in {"loop", "done", "write_panicked"}

\* a name that is not empty and holds no path separator
PlainName(n) == n # <<>> /\ \A j \in 1..Len(n) : n[j] # "/"
AllNamesPlain == \A k \in 1..Len(Order) : PlainName(InstanceAt(k).unit.name)

\* C7 as stated, for the documents whose names are all plain: after a run
\* without error the file of every instance holds the text of that instance,
\* resolved against its own group's template
C7_EveryInstanceHasItsFile ==
    (pc = "done" /\ AllNamesPlain) =>
        \A k \in 1..Len(Order) :
            /\ PathAt(k) \in DOMAIN fs
            /\ fs[PathAt(k)] = Whole(TextAt(k))

\* C7 (amended): after a run without error, the file main names for an instance
\* exists and holds the text of the last instance, in the order of declaration,
\* that is written to that same file (the instance itself when no later one
\* shares its file), resolved against the template of that instance's own group;
\* the decoded templates are never altered by the loop.
C7_LastWriterHasTheFile ==
    /\ pc = "done" =>
         \A k \in 1..Len(Order) :
            /\ PathAt(k) \in DOMAIN fs
            /\ fs[PathAt(k)] = Whole(TextAt(LastAt(k)))
    /\ Decoded => def_file = DecodeDefinitionFile(doc).val

\* a finished run over two groups whose instances share a name
C7_Witness ==
    /\ pc = "done"
    /\ Len(def_file.defs) = 2
    /\ \E k \in 1..Len(Order) : \E j \in 1..Len(Order) :
         /\ Order[k].g = 1 /\ Order[j].g = 2
         /\ PathAt(k) = PathAt(j)
         /\ TextAt(k) # TextAt(j)
         /\ fs[PathAt(k)] = Whole(TextAt(j))

\* the allowed names of the enumerations
RestartAllowed == {"no", "always", "on-success", "on-failure", "on-watchdog", "on-abort"}
RemainAfterExitAllowed == {"no", "yes"}
ServiceTypeAllowed == {"simple", "oneshot", "forking", "notify", "dbus", "idle"}

ServiceMalformed(rawService) ==
    \/ IsVal(rawService.restart) /\ rawService.restart[2] \notin RestartAllowed
    \/ IsVal(rawService.remain_after_exit)
         /\ rawService.remain_after_exit[2] \notin RemainAfterExitAllowed
    \/ IsVal(rawService.service_type)
         /\ rawService.service_type[2] \notin ServiceTypeAllowed
    \/ IsVal(rawService.timeout_start_sec) /\ rawService.timeout_start_sec[2] < 0

InstanceMalformed(rawInstance) ==
    \/ ~IsVal(rawInstance.unit[2].name)
    \/ ~IsVal(rawInstance.unit[2].description)
    \/ IsVal(rawInstance.service) /\ ServiceMalformed(rawInstance.service[2])

GroupMalformed(rawGroup) ==
    \/ ~IsVal(rawGroup.template)
    \/ ServiceMalformed(rawGroup.template[2].service[2])
    \/ \E i \in 1..Len(rawGroup.instances[2]) : InstanceMalformed(rawGroup.instances[2][i])

\* a required field is missing, an enumeration's value is not allowed, or the
\* structure cannot be parsed
Malformed(d) ==
    \/ ~d.parsable
    \/ ~IsVal(d.defs)
    \/ \E g \in 1..Len(d.defs[2]) : GroupMalformed(d.defs[2][g])

\* C8: when the document does not decode, the run aborts before any file is
\* written: no write happens unless the whole document has been decoded.
C8_NoWriteUnlessDecoded ==
    /\ (writes # <<>> \/ fs # EmptyFs) => ~Malformed(doc) /\ Decoded
    /\ Malformed(doc) => pc \in {"start", "open_panicked", "decode_panicked"}

\* the run has aborted on a document whose first instance is well-formed and
\* whose second lacks its description
C8_Witness ==
    /\ pc = "decode_panicked"
    /\ writes = <<>>
    /\ doc.parsable /\ IsVal(doc.defs)
    /\ Len(doc.defs[2][1].instances[2]) = 2
    /\ ~InstanceMalformed(doc.defs[2][1].instances[2][1])
    /\ IsAbsent(doc.defs[2][1].instances[2][2].unit[2].description)

\* C9: every write targets OUTPUT_DIRECTORY/"{n}.service" with n non-empty and
\* free of path separators.
C9_WritesStayInOutputDirectory ==
    \A k \in 1..Len(writes) :
        LET p == writes[k].path
            d == Len(OutDst)
        IN /\ Len(p) >= d + 3
           /\ SubSeq(p, 1, d) = OutDst
           /\ p[d + 1] = "/"
           /\ p[Len(p)] = ".service"
           /\ \A j \in (d + 2)..(Len(p) - 1) : p[j] # "/"

\* the file at path p after the first n writes, all of them successful
RECURSIVE FileAfter(_, _)
FileAfter(p, n) ==
    IF n = 0 THEN <<>>
    ELSE IF writes[n].path = p THEN <<Whole(writes[n].content)>>
    ELSE FileAfter(p, n - 1)

\* the file at path p is what the first n writes left there
AsLeftBy(p, n) ==
    IF FileAfter(p, n) = <<>> THEN p \notin DOMAIN fs
    ELSE p \in DOMAIN fs /\ fs[p] = FileAfter(p, n)[1]

\* instances are written in the order of declaration, a failed write is the last
InOrderUntilFailure ==
    /\ Decoded => Len(writes) <= Len(Order)
    /\ \A k \in 1..Len(writes) :
         /\ writes[k].path = PathAt(k)
         /\ writes[k].content = TextAt(k)
         /\ k < Len(writes) => writes[k].ok
    /\ pc = "write_panicked" <=> (writes # <<>> /\ ~writes[Len(writes)].ok)
    /\ pc = "write_panicked" => ~ENABLED Next
    /\ DOMAIN fs \subseteq {writes[k].path : k \in 1..Len(writes)}

\* C10 as stated, for the documents whose names are all plain: instances are
\* written in order, the first failure stops the run, and the files written for
\* the earlier instances are left unchanged
C10_EarlierFilesUnchanged ==
    /\ InOrderUntilFailure
    /\ (pc = "write_panicked" /\ AllNamesPlain) =>
         \A k \in 1..(Len(writes) - 1) : AsLeftBy(writes[k].path, Len(writes) - 1)

\* C10 (amended): instances are written one at a time in the order of
\* declaration; when a write fails the run stops at once, nothing is retried and
\* nothing is written for a later instance; every file written before is left
\* unchanged, except the file the failed write was aimed at, which is unchanged
\* or holds a part of the failed instance's text.
C10_StopsAtFirstFailure ==
    /\ InOrderUntilFailure
    /\ pc = "write_panicked" =>
         LET n == Len(writes)
         IN /\ \A k \in 1..(n - 1) :
                 writes[k].path # writes[n].path => AsLeftBy(writes[k].path, n - 1)
            /\ \/ AsLeftBy(writes[n].path, n - 1)
               \/ /\ writes[n].path \in DOMAIN fs
                  /\ fs[writes[n].path] = Part(writes[n].content)

\* the second write of a run failed after one file was written, with a third
\* instance still to come
C10_Witness ==
    /\ pc = "write_panicked"
    /\ Len(writes) = 2
    /\ Len(Order) = 3
    /\ writes[1].path # writes[2].path
    /\ AsLeftBy(writes[1].path, 1)

====
